---- MODULE Spec2Model ----
(***************************************************************************)
(* Model of the document edit & undo engine of pdf_tool.py                 *)
(* (class PDFToolWindow): the current document (reader / page_images /     *)
(* current_pdf_path / current_page_index), the bounded undo stack of       *)
(* (temp file, cursor) pairs, the temp files the handlers create, copy and *)
(* remove, the per-button single-click timers and the modal prompts of the *)
(* batch operations.                                                       *)
(*                                                                         *)
(* Handlers are written as operators on a record `s` of the window's       *)
(* fields (plus the file system), one operator per method, composed the    *)
(* way the methods call each other; an action of the state machine is one  *)
(* event-loop callback run to completion.  A raised, uncaught exception    *)
(* abandons the callback at the raise point: field `exc` of the record.    *)
(***************************************************************************)
EXTENDS Integers, Sequences, FiniteSets, TLC

VARIABLES
    files,               \* file system: path -> [exists, valid, pages]
    nextFile,            \* next name tempfile.mkstemp hands out
    current_pdf_path,    \* self.current_pdf_path (NoPath = None)
    page_images,         \* self.page_images: one preview per page
    reader,              \* self.reader: [set, pages] (set = FALSE is None)
    current_page_index,  \* self.current_page_index
    undo_stack,          \* self.undo_stack: sequence of <<path, index>>
    last_temp,           \* self._last_temp (NoPath = attribute not yet set)
    click_timers,        \* self.click_timers: control -> an active timer is held
    strays,              \* timers still running that self.click_timers has let go
    dialog,              \* the modal QInputDialog that is open, if any
    lastClicked,         \* the button the previous mouse press clicked, if any
    last,                \* history variable: the last handler that ran
    chain,               \* history variable: pre-images of consecutive edits
    pushLog,             \* history variable: snapshots pushed since last pop/clear
    gesture,             \* history variable: the gesture on the watched control
    faults               \* number of I/O failures injected so far

vars == <<files, nextFile, current_pdf_path, page_images, reader,
          current_page_index, undo_stack, last_temp, click_timers, strays,
          dialog, lastClicked, last, chain, pushLog, gesture, faults>>

----------------------------------------------------------------------------
(* Bounds of the model *)

MaxFiles == 4        \* temp files mkstemp may create in one behaviour of Spec
MaxHistFiles == 13   \* the same, in one behaviour of SpecHistory
MaxClickFiles == 4   \* the same, in one behaviour of SpecClick
MaxFaultFiles == 4   \* the same, in one behaviour of SpecFaults
MaxPages == 4        \* longest document SpecMove starts from
MaxBlank == 2        \* largest count entered in the insert-blank prompt
MaxFaults == 1       \* I/O failures injected in one behaviour
MaxArmed == 2        \* click timers running at the same time
MaxTokens == 3       \* parts of an expression given to parse_page_ranges
MaxTotal == 2        \* largest total_pages SpecParse enumerates expressions for
MaxEditFiles == 4    \* temp files mkstemp may create in one behaviour of SpecEdit

----------------------------------------------------------------------------
(* Program constants *)

NoPath == 0          \* None
Blank == 0           \* the page create_blank_page() returns
MAX_UNDO == 5
single_click_delay == 300

Controls == {"up", "down", "del", "blank"}

Min(a, b) == IF a < b THEN a ELSE b
Max(a, b) == IF a > b THEN a ELSE b

\* The PDF files the user can pick in the file dialog (or drop on the
\* window): a three-page document, a one-page document, a document without
\* pages.  Temp files get the names above these.
UserA == 1
UserB == 2
UserC == 3
UserFiles == {UserA, UserB, UserC}
FirstTemp == 4
Paths ==
    1..(FirstTemp + Max(Max(MaxFiles, MaxHistFiles),
                        Max(MaxClickFiles, MaxFaultFiles)) + 1)

NoFile == [exists |-> FALSE, valid |-> FALSE, pages |-> <<>>]
EmptyFile == [exists |-> TRUE, valid |-> FALSE, pages |-> <<>>]
PdfFile(pages) == [exists |-> TRUE, valid |-> TRUE, pages |-> pages]

Disk ==
    [p \in Paths |->
        IF p = UserA THEN PdfFile(<<1, 2, 3>>)
        ELSE IF p = UserB THEN PdfFile(<<4>>)
        ELSE IF p = UserC THEN PdfFile(<<>>)
        ELSE NoFile]

NoReader == [set |-> FALSE, pages |-> <<>>]
Reader(pages) == [set |-> TRUE, pages |-> pages]

----------------------------------------------------------------------------
(* Python list operations, on 0-based indices *)

\* list.pop(i) raises IndexError unless -len <= i < len
PyPopOk(seq, i) == -Len(seq) <= i /\ i < Len(seq)
PyIdx(seq, i) == IF i < 0 THEN i + Len(seq) ELSE i
PyAt(seq, i) == seq[PyIdx(seq, i) + 1]
PyPop(seq, i) ==
    LET k == PyIdx(seq, i) + 1
    IN  SubSeq(seq, 1, k - 1) \o SubSeq(seq, k + 1, Len(seq))

\* list.insert(i, x): a negative i counts from the end, and the position is
\* clamped into 0..len
PyInsert(seq, i, x) ==
    LET k == Max(0, Min(Len(seq), IF i < 0 THEN i + Len(seq) ELSE i))
    IN  SubSeq(seq, 1, k) \o <<x>> \o SubSeq(seq, k + 1, Len(seq))

----------------------------------------------------------------------------
(* The window's fields and the file system as one record.  Three fields    *)
(* are bookkeeping of the handler being run: exc (an exception is          *)
(* propagating), made (the path the last mkstemp returned), pushed (the    *)
(* snapshots this handler appended to the undo stack), loaded (load_pdf    *)
(* ran to its last line) and failed (the I/O step that failed, if any).    *)

State ==
    [files |-> files, nextFile |-> nextFile,
     current_pdf_path |-> current_pdf_path, page_images |-> page_images,
     reader |-> reader, current_page_index |-> current_page_index,
     undo_stack |-> undo_stack, last_temp |-> last_temp,
     exc |-> FALSE, made |-> NoPath, pushed |-> <<>>, loaded |-> FALSE,
     failed |-> "none"]

\* tempfile.mkstemp + os.close: a new, empty file under a new name
CanMkstemp(s) == s.nextFile \in Paths
mkstemp(s) ==
    [s EXCEPT !.files[s.nextFile] = EmptyFile,
              !.nextFile = s.nextFile + 1,
              !.made = s.nextFile]

\* writer.write(f) into `path`: materializes `pages`, or raises
write_pdf(s, path, pages, ok) ==
    IF ok THEN [s EXCEPT !.files[path] = PdfFile(pages)]
    ELSE [s EXCEPT !.exc = TRUE, !.failed = "write"]

\* os.remove inside try/except: pass
remove(s, path) == [s EXCEPT !.files[path] = NoFile]

Raise(s) == [s EXCEPT !.exc = TRUE]

----------------------------------------------------------------------------
(* What the environment does to the I/O of one handler: shutil.copy and    *)
(* writer.write succeed or raise; PdfReader / convert_from_path succeed,   *)
(* or the source cannot be read, or the preview cannot be generated.       *)

AllOk == [copy |-> TRUE, write |-> TRUE, load |-> "ok"]
IOs ==
    {AllOk,
     [AllOk EXCEPT !.copy = FALSE],
     [AllOk EXCEPT !.write = FALSE],
     [AllOk EXCEPT !.load = "unreadable"],
     [AllOk EXCEPT !.load = "nopreview"]}

----------------------------------------------------------------------------
(* load_pdf, _push_undo_state, undo, close_pdf *)

\* PdfReader(pdf_path) raises on a missing, empty or unreadable file; the
\* handler's except clause reports it.  self.reader is assigned before the
\* page count is looked at and before the previews are generated.
load_pdf(s, pdf_path, is_undo, how) ==
    LET f == s.files[pdf_path]
    IN  IF ~f.exists \/ ~f.valid \/ how = "unreadable"
        THEN [s EXCEPT !.failed = "load"]
        ELSE LET s1 == [s EXCEPT !.reader = Reader(f.pages), !.failed = "load"]
             IN  IF Len(f.pages) = 0 THEN s1
                 ELSE IF how = "nopreview" THEN s1
                 ELSE [s1 EXCEPT
                         !.failed = s.failed,
                         !.loaded = TRUE,
                         !.page_images = f.pages,
                         !.current_pdf_path = pdf_path,
                         !.current_page_index =
                             IF is_undo THEN s.current_page_index ELSE 0]

\* whether load_pdf(s, pdf_path, ..) runs to its last line
load_succeeds(s, pdf_path, how) ==
    LET f == s.files[pdf_path]
    IN  f.exists /\ f.valid /\ how = "ok" /\ Len(f.pages) > 0

\* pop() in place of pop(0): the newest entry goes
evict_newest(stack) == SubSeq(stack, 1, Len(stack) - 1)

\* the entry dropped when the stack has grown past MAX_UNDO: pop(0)
evict(stack) == Tail(stack)
evicted(stack) == Head(stack)

\* the oldest entry dropped and its file removed before the copy is made
push_undo_state_evict_first(s, copyOk) ==
    IF s.current_pdf_path = NoPath THEN s
    ELSE LET s0 == IF Len(s.undo_stack) >= MAX_UNDO
                   THEN [remove(s, evicted(s.undo_stack)[1]) EXCEPT
                           !.undo_stack = evict(s.undo_stack)]
                   ELSE s
             s1 == mkstemp(s0)
             temp_path == s1.made
             src == s1.files[s.current_pdf_path]
         IN  IF ~src.exists \/ ~copyOk THEN [Raise(s1) EXCEPT !.failed = "copy"]
             ELSE [s1 EXCEPT
                     !.files[temp_path] = src,
                     !.undo_stack =
                         Append(s0.undo_stack,
                                <<temp_path, s.current_page_index>>),
                     !.pushed =
                         Append(s.pushed,
                                <<temp_path, s.current_page_index>>)]

push_undo_state(s, copyOk) ==
    IF s.current_pdf_path = NoPath THEN s
    ELSE LET s1 == mkstemp(s)
             temp_path == s1.made
             src == s1.files[s.current_pdf_path]
         IN  IF ~src.exists \/ ~copyOk THEN [Raise(s1) EXCEPT !.failed = "copy"]
             ELSE LET s2 == [s1 EXCEPT
                               !.files[temp_path] = src,
                               !.undo_stack =
                                   Append(s.undo_stack,
                                          <<temp_path, s.current_page_index>>),
                               !.pushed =
                                   Append(s.pushed,
                                          <<temp_path, s.current_page_index>>)]
                  IN  IF Len(s2.undo_stack) > MAX_UNDO
                      THEN [remove(s2, evicted(s2.undo_stack)[1]) EXCEPT
                              !.undo_stack = evict(s2.undo_stack)]
                      ELSE s2

\* the cursor undo leaves: the popped index
undo_index(s, prev_index) == prev_index

\* an early return that still runs the cleanup of the finally clause
undo_empty_cleans(s) ==
    IF s.last_temp # NoPath /\ s.files[s.last_temp].exists
    THEN remove(s, s.last_temp)
    ELSE s

\* `if not self.undo_stack: return`
undo_empty(s) == s

undo(s, how) ==
    IF Len(s.undo_stack) = 0 THEN undo_empty(s)
    ELSE LET top == s.undo_stack[Len(s.undo_stack)]
             prev_path == top[1]
             prev_index == top[2]
             s1 == [s EXCEPT !.undo_stack =
                                SubSeq(s.undo_stack, 1, Len(s.undo_stack) - 1)]
             s2 == load_pdf(s1, prev_path, TRUE, how)
             s3 == [s2 EXCEPT !.current_page_index = undo_index(s2, prev_index)]
             \* finally: remove the file the previous undo restored
             s4 == IF s3.last_temp # NoPath /\ s3.files[s3.last_temp].exists
                   THEN remove(s3, s3.last_temp)
                   ELSE s3
         IN  [s4 EXCEPT !.last_temp = prev_path]

\* close_pdf without `self.reader = None`
close_pdf_keeps_reader(s) ==
    [s EXCEPT !.current_pdf_path = NoPath,
              !.page_images = <<>>,
              !.current_page_index = 0,
              !.undo_stack = <<>>]

close_pdf(s) ==
    [s EXCEPT !.current_pdf_path = NoPath,
              !.page_images = <<>>,
              !.reader = NoReader,
              !.current_page_index = 0,
              !.undo_stack = <<>>]

----------------------------------------------------------------------------
(* process_pdf_files, images_to_pdf *)

RECURSIVE Concat(_, _)
Concat(s, fs) ==
    IF fs = <<>> THEN <<>> ELSE s.files[Head(fs)].pages \o Concat(s, Tail(fs))

\* files: the sequence of picked paths.  One file is loaded as it is; several
\* are merged into a temp file, which is loaded and then snapshotted.
process_pdf_files(s, fs, io) ==
    IF Len(fs) = 1 THEN load_pdf(s, fs[1], FALSE, io.load)
    ELSE LET s1 == mkstemp(s)
             merged_path == s1.made
         IN  IF io.load = "unreadable" THEN [Raise(s1) EXCEPT !.failed = "load"]
             ELSE LET s2 == write_pdf(s1, merged_path, Concat(s1, fs), io.write)
                  IN  IF s2.exc THEN s2
                      ELSE push_undo_state(
                               load_pdf(s2, merged_path, FALSE, io.load),
                               io.copy)

\* the picked images become the pages of a temp PDF; every exception is
\* caught and reported
images_to_pdf(s, imgs, io) ==
    LET s1 == mkstemp(s)
        temp_path == s1.made
        s2 == write_pdf(s1, temp_path, imgs, io.write)
    IN  IF s2.exc THEN [s2 EXCEPT !.exc = FALSE]
        ELSE LET s3 == push_undo_state(
                           load_pdf(s2, temp_path, FALSE, io.load), io.copy)
             IN  [s3 EXCEPT !.exc = FALSE]

----------------------------------------------------------------------------
(* The single-page edits *)

\* list(self.reader.pages) with pop(from_index) and insert(to_index, ..)
relocate(pages, from_index, to_index) ==
    PyInsert(PyPop(pages, from_index), to_index, PyAt(pages, from_index))

\* a cursor that follows the moved page only
move_cursor_unshifted(cur, from_index, to_index) ==
    IF cur = from_index THEN to_index ELSE cur

\* new_current of move_page
move_cursor(cur, from_index, to_index) ==
    IF cur = from_index THEN to_index
    ELSE IF from_index < cur /\ cur <= to_index THEN cur - 1
    ELSE IF to_index <= cur /\ cur < from_index THEN cur + 1
    ELSE cur

\* temp file, writer.write(pages), load_pdf, then the cursor is set:
\* _write_and_reload, and the same lines at the end of move_page and
\* add_blank_after_current
write_and_reload(s, pages, new_index, io) ==
    LET s1 == mkstemp(s)
        temp_path == s1.made
        s2 == write_pdf(s1, temp_path, pages, io.write)
    IN  IF s2.exc THEN s2
        ELSE [load_pdf(s2, temp_path, FALSE, io.load) EXCEPT
                !.current_page_index = new_index]

\* temp file, writer.write(pages), load_pdf: the end of delete_current_page,
\* delete_current_pages_multi and split_by_range
write_and_load(s, pages, io) ==
    LET s1 == mkstemp(s)
        temp_path == s1.made
        s2 == write_pdf(s1, temp_path, pages, io.write)
    IN  IF s2.exc THEN s2
        ELSE load_pdf(s2, temp_path, FALSE, io.load)

move_page(s, from_index, to_index, io) ==
    IF from_index = to_index THEN s
    ELSE LET s1 == push_undo_state(s, io.copy)
         IN  IF s1.exc THEN s1
             ELSE IF ~s1.reader.set THEN Raise(s1)
             ELSE IF ~PyPopOk(s1.reader.pages, from_index) THEN Raise(s1)
             ELSE write_and_reload(
                      s1,
                      relocate(s1.reader.pages, from_index, to_index),
                      move_cursor(s1.current_page_index, from_index, to_index),
                      io)

move_current_up(s, io) ==
    IF s.current_page_index > 0
    THEN move_page(s, s.current_page_index, s.current_page_index - 1, io)
    ELSE s

move_current_down(s, io) ==
    IF s.current_page_index < Len(s.page_images) - 1
    THEN move_page(s, s.current_page_index, s.current_page_index + 1, io)
    ELSE s

prev_page(s) ==
    IF s.current_page_index > 0
    THEN [s EXCEPT !.current_page_index = s.current_page_index - 1]
    ELSE s

next_page(s) ==
    IF s.current_page_index < Len(s.page_images) - 1
    THEN [s EXCEPT !.current_page_index = s.current_page_index + 1]
    ELSE s

on_thumbnail_click(s, row) == [s EXCEPT !.current_page_index = row]

\* the pages enumerate() keeps: those whose 0-based index is outside
\* [first, first + n)
RECURSIVE without(_, _, _)
without(pages, first, n) ==
    IF pages = <<>> THEN <<>>
    ELSE LET k == Len(pages) - 1
             rest == without(SubSeq(pages, 1, k), first, n)
         IN  IF k < first \/ k >= first + n
             THEN Append(rest, pages[k + 1])
             ELSE rest

delete_current_page(s, io) ==
    IF ~s.reader.set \/ Len(s.page_images) <= 1 THEN s
    ELSE LET s1 == push_undo_state(s, io.copy)
         IN  IF s1.exc THEN s1
             ELSE write_and_load(
                      s1, without(s1.reader.pages, s1.current_page_index, 1), io)

\* pos = current_page_index in place of current_page_index + 1
add_blank_before_current(s, io) ==
    IF ~s.reader.set THEN s
    ELSE LET s1 == push_undo_state(s, io.copy)
             pos == s.current_page_index
         IN  IF s1.exc THEN s1
             ELSE write_and_reload(
                      s1, PyInsert(s1.reader.pages, pos, Blank), pos, io)

add_blank_after_current(s, io) ==
    IF ~s.reader.set THEN s
    ELSE LET s1 == push_undo_state(s, io.copy)
             pos == s.current_page_index + 1
         IN  IF s1.exc THEN s1
             ELSE write_and_reload(
                      s1, PyInsert(s1.reader.pages, pos, Blank), pos, io)

single_action(c, s, io) ==
    CASE c = "up" -> move_current_up(s, io)
      [] c = "down" -> move_current_down(s, io)
      [] c = "del" -> delete_current_page(s, io)
      [] c = "blank" -> add_blank_after_current(s, io)

----------------------------------------------------------------------------
(* The batch edits.  Each checks its guard and computes the prompt's range *)
(* (_open), shows a modal QInputDialog.getInt, and acts on the answer      *)
(* (_answer); the window's event loop keeps delivering timer events while  *)
(* the prompt is up.                                                       *)

NoDialog == [kind |-> "none", lo |-> 0, hi |-> 0]
Prompt(kind, lo, hi) == [kind |-> kind, lo |-> lo, hi |-> hi]

\* QInputDialog.getInt(.., value, min, max): QSpinBox.setRange raises a
\* maximum below the minimum to the minimum
multi_open(c, s) ==
    CASE c = "up" ->
           IF s.current_page_index <= 0 THEN NoDialog
           ELSE Prompt("up", 1, Max(1, s.current_page_index))
      [] c = "down" ->
           IF s.current_page_index >= Len(s.page_images) - 1 THEN NoDialog
           ELSE Prompt("down", 1,
                       Max(1, Len(s.page_images) - 1 - s.current_page_index))
      [] c = "del" ->
           IF Len(s.page_images) <= 1 THEN NoDialog
           ELSE Prompt("del", 1,
                       Max(1, Len(s.page_images) - s.current_page_index))
      [] c = "blank" ->
           IF ~s.reader.set THEN NoDialog
           ELSE Prompt("blank", 1, 50)

\* a batch move that leaves the cursor where the page was
move_current_multi_answer_stay(s, n, dir, io) ==
    LET s1 == push_undo_state(s, io.copy)
        start == s.current_page_index
        end == start + dir * n
    IN  IF s1.exc THEN s1
        ELSE IF ~s1.reader.set THEN Raise(s1)
        ELSE IF ~PyPopOk(s1.reader.pages, start) THEN Raise(s1)
        ELSE write_and_reload(s1, relocate(s1.reader.pages, start, end), start,
                              io)

move_current_multi_answer(s, n, dir, io) ==
    LET s1 == push_undo_state(s, io.copy)
        start == s.current_page_index
        end == start + dir * n
    IN  IF s1.exc THEN s1
        ELSE IF ~s1.reader.set THEN Raise(s1)
        ELSE IF ~PyPopOk(s1.reader.pages, start) THEN Raise(s1)
        ELSE write_and_reload(s1, relocate(s1.reader.pages, start, end), end, io)

delete_current_pages_multi_answer(s, n, io) ==
    LET s1 == push_undo_state(s, io.copy)
    IN  IF s1.exc THEN s1
        ELSE IF ~s1.reader.set THEN Raise(s1)
        ELSE write_and_load(
                 s1, without(s1.reader.pages, s1.current_page_index, n), io)

RECURSIVE insert_blanks(_, _, _)
insert_blanks(pages, pos, n) ==
    IF n = 0 THEN pages
    ELSE PyInsert(insert_blanks(pages, pos, n - 1), pos + n - 1, Blank)

add_blank_pages_multi_answer(s, n, io) ==
    LET s1 == push_undo_state(s, io.copy)
        pos == s.current_page_index + 1
    IN  IF s1.exc THEN s1
        ELSE IF ~s1.reader.set THEN Raise(s1)
        ELSE write_and_reload(
                 s1, insert_blanks(s1.reader.pages, pos, n), pos + n - 1, io)

\* `if ok and n > 0:` and the body under it
multi_answer(c, s, ok, n, io) ==
    IF ~(ok /\ n > 0) THEN s
    ELSE CASE c = "up" -> move_current_multi_answer(s, n, -1, io)
           [] c = "down" -> move_current_multi_answer(s, n, 1, io)
           [] c = "del" -> delete_current_pages_multi_answer(s, n, io)
           [] c = "blank" -> add_blank_pages_multi_answer(s, n, io)

----------------------------------------------------------------------------
(* parse_page_ranges.  A text is a sequence of one-character strings.      *)

Digits == {"0", "1", "2", "3", "4", "5", "6", "7", "8", "9"}
DigitVal(c) ==
    CASE c = "0" -> 0 [] c = "1" -> 1 [] c = "2" -> 2 [] c = "3" -> 3
      [] c = "4" -> 4 [] c = "5" -> 5 [] c = "6" -> 6 [] c = "7" -> 7
      [] c = "8" -> 8 [] c = "9" -> 9

\* str.strip() leaves nothing
IsBlank(text) == \A i \in 1..Len(text) : text[i] = " "

\* str.replace(" ", "")
RECURSIVE remove_spaces(_)
remove_spaces(text) ==
    IF text = <<>> THEN <<>>
    ELSE IF Head(text) = " " THEN remove_spaces(Tail(text))
    ELSE <<Head(text)>> \o remove_spaces(Tail(text))

\* str.split(sep): the parts between the separators, empty parts included
RECURSIVE split(_, _)
split(text, sep) ==
    IF \A i \in 1..Len(text) : text[i] # sep THEN <<text>>
    ELSE LET k == CHOOSE i \in 1..Len(text) :
                      text[i] = sep /\ \A j \in 1..(i - 1) : text[j] # sep
         IN  <<SubSeq(text, 1, k - 1)>>
                 \o split(SubSeq(text, k + 1, Len(text)), sep)

\* int(x) succeeds on a non-empty run of digits (of the characters a text is
\* made of here) and raises ValueError otherwise
IsInt(x) == x # <<>> /\ \A i \in 1..Len(x) : x[i] \in Digits
RECURSIVE int(_)
int(x) ==
    IF x = <<>> THEN 0
    ELSE 10 * int(SubSeq(x, 1, Len(x) - 1)) + DigitVal(x[Len(x)])

\* a range check that takes the ends of a range in either order
part_ok_unordered(part, total_pages) ==
    IF \E i \in 1..Len(part) : part[i] = "-"
    THEN LET ends == split(part, "-")
         IN  /\ Len(ends) = 2
             /\ IsInt(ends[1]) /\ IsInt(ends[2])
             /\ 1 <= int(ends[1]) /\ int(ends[1]) <= total_pages
             /\ 1 <= int(ends[2]) /\ int(ends[2]) <= total_pages
    ELSE IsInt(part) /\ 1 <= int(part) /\ int(part) <= total_pages

\* whether the part passes: the code raises ValueError when it does not
part_ok(part, total_pages) ==
    IF \E i \in 1..Len(part) : part[i] = "-"
    THEN LET ends == split(part, "-")
         IN  /\ Len(ends) = 2
             /\ IsInt(ends[1]) /\ IsInt(ends[2])
             /\ 1 <= int(ends[1]) /\ int(ends[1]) <= int(ends[2])
             /\ int(ends[2]) <= total_pages
    ELSE IsInt(part) /\ 1 <= int(part) /\ int(part) <= total_pages

\* range(start, end) in place of range(start, end + 1)
part_pages_exclusive(part) ==
    IF \E i \in 1..Len(part) : part[i] = "-"
    THEN LET ends == split(part, "-") IN int(ends[1])..(int(ends[2]) - 1)
    ELSE {int(part)}

\* the pages a part that passes contributes
part_pages(part) ==
    IF \E i \in 1..Len(part) : part[i] = "-"
    THEN LET ends == split(part, "-") IN int(ends[1])..int(ends[2])
    ELSE {int(part)}

\* sorted(pages)
RECURSIVE sorted(_)
sorted(set) ==
    IF set = {} THEN <<>>
    ELSE LET m == CHOOSE x \in set : \A y \in set : x <= y
         IN  <<m>> \o sorted(set \ {m})

\* the result: [ok, pages] and, when a part is rejected, the part the
\* ValueError names
parse_page_ranges(range_str, total_pages) ==
    IF IsBlank(range_str) THEN [ok |-> TRUE, pages |-> <<>>, token |-> <<>>]
    ELSE LET parts == split(remove_spaces(range_str), ",")
             bad == {i \in 1..Len(parts) : ~part_ok(parts[i], total_pages)}
         IN  IF bad # {}
             THEN [ok |-> FALSE, pages |-> <<>>,
                   token |-> parts[CHOOSE i \in bad : \A j \in bad : i <= j]]
             ELSE [ok |-> TRUE,
                   pages |-> sorted(UNION {part_pages(parts[i]) :
                                              i \in 1..Len(parts)}),
                   token |-> <<>>]

\* a loop that takes the pages by their place in the selection
extract_by_position(pages, selected_pages) ==
    [i \in 1..Len(selected_pages) |-> pages[i]]

\* for p in selected_pages: writer.add_page(self.reader.pages[p - 1])
extract(pages, selected_pages) ==
    [i \in 1..Len(selected_pages) |-> pages[selected_pages[i]]]

\* split_by_range after the text prompt has returned (text, ok); total is
\* len(self.reader.pages) as read before the prompt was shown
split_by_range_answer(s, ok, text, total, io) ==
    IF ~ok \/ IsBlank(text) THEN s
    ELSE LET r == parse_page_ranges(text, total)
         IN  IF ~r.ok \/ r.pages = <<>> THEN s
             ELSE LET s1 == push_undo_state(s, io.copy)
                  IN  IF s1.exc THEN s1
                      ELSE LET s2 == mkstemp(s1)
                               temp_path == s2.made
                           IN  \* self.reader.pages[p - 1]: IndexError
                               IF \E i \in 1..Len(r.pages) :
                                      r.pages[i] > Len(s2.reader.pages)
                               THEN Raise(s2)
                               ELSE LET s3 == write_pdf(
                                              s2, temp_path,
                                              extract(s2.reader.pages, r.pages),
                                              io.write)
                                    IN  IF s3.exc THEN s3
                                        ELSE load_pdf(s3, temp_path, FALSE,
                                                      io.load)


----------------------------------------------------------------------------
(* The state machine.  An action is one callback of the event loop.  Its   *)
(* parameter e is the environment it runs in: the files the user may pick, *)
(* the I/O outcomes, the texts typed into the split prompt, and the bounds *)
(* on temp files, injected failures and running timers.                    *)

\* what the user picks in the file dialog or drops on the window
OpenChoices == {<<UserA>>, <<UserB>>, <<UserC>>, <<UserA, UserB>>}
\* the pages images_to_pdf makes of the picked image files
ImagePages == <<5>>
\* the texts typed into the split prompt
SplitTexts ==
    {<<"2">>, <<"1", "-", "2">>, <<"3", ",", "1">>, <<"2", "-", "1">>, <<" ">>}

\* every pick and every prompt text, I/O that does not fail
FullEnv ==
    [opens |-> OpenChoices, ios |-> {AllOk}, texts |-> SplitTexts,
     files |-> MaxFiles, faults |-> 0, armed |-> MaxArmed]

\* I/O that may fail, on one document
FaultEnv ==
    [opens |-> {<<UserA>>}, ios |-> IOs, texts |-> {<<"2">>},
     files |-> MaxFaultFiles, faults |-> MaxFaults, armed |-> 1]

\* long runs of single-page edits and undos on one document
HistoryEnv ==
    [opens |-> {<<UserA>>}, ios |-> {AllOk}, texts |-> {},
     files |-> MaxHistFiles, faults |-> 0, armed |-> 1]

\* the four buttons on one document
ClickEnv ==
    [opens |-> {<<UserA>>}, ios |-> {AllOk}, texts |-> {},
     files |-> MaxClickFiles, faults |-> 0, armed |-> MaxArmed]

Armed == {c \in Controls : click_timers[c]}

\* temp names are left for k more handlers (a handler creates at most two
\* temp files) on top of the handlers of the timers that are running
Room(e, k) == nextFile + 2 * (Cardinality(Armed) + k) <= FirstTemp + e.files

IOChoices(e) == IF faults < e.faults THEN e.ios ELSE {AllOk}
\* an injected failure is one the handler ran into
Bites(io, s2) ==
    \/ io = AllOk
    \/ ~io.copy /\ s2.failed = "copy"
    \/ ~io.write /\ s2.failed = "write"
    \/ io.load # "ok" /\ s2.failed = "load"

NoExpect == [pages |-> <<>>, index |-> 0]

\* the record of the handler that has just run and left state s2
Ran(op, c, n, m, text, s2) ==
    [op |-> op, c |-> c, n |-> n, m |-> m, text |-> text,
     exc |-> s2.exc, loaded |-> s2.loaded, failed |-> s2.failed,
     pushed |-> Len(s2.pushed), chained |-> FALSE, expect |-> NoExpect]

SameDocument(s, s2) ==
    /\ s2.reader = s.reader
    /\ s2.page_images = s.page_images
    /\ s2.current_pdf_path = s.current_pdf_path
    /\ s2.current_page_index = s.current_page_index
    /\ s2.undo_stack = s.undo_stack

Commit(s2) ==
    /\ files' = s2.files
    /\ nextFile' = s2.nextFile
    /\ current_pdf_path' = s2.current_pdf_path
    /\ page_images' = s2.page_images
    /\ reader' = s2.reader
    /\ current_page_index' = s2.current_page_index
    /\ undo_stack' = s2.undo_stack
    /\ last_temp' = s2.last_temp

Inject(io) == faults' = IF io = AllOk THEN faults ELSE faults + 1

LastN(seq, n) == SubSeq(seq, Max(1, Len(seq) - n + 1), Len(seq))

\* a structural edit took s to s2: the chain of consecutive successful edits
\* grows by the pre-image of this one, is kept by an edit that did nothing,
\* and is broken by anything else
ChainAfterEdit(s, s2) ==
    IF s2.loaded /\ ~s2.exc /\ s.current_pdf_path # NoPath
    THEN LastN(Append(chain, [pages |-> s.reader.pages,
                              index |-> s.current_page_index]), MAX_UNDO)
    ELSE IF SameDocument(s, s2) THEN chain
    ELSE <<>>

NoGesture ==
    [c |-> "none", phase |-> "idle", pending |-> FALSE, single |-> 0,
     multi |-> 0]

Constructed ==
    /\ files = Disk
    /\ nextFile = FirstTemp
    /\ current_pdf_path = NoPath
    /\ page_images = <<>>
    /\ reader = NoReader
    /\ current_page_index = 0
    /\ undo_stack = <<>>
    /\ last_temp = NoPath
    /\ click_timers = [c \in Controls |-> FALSE]
    /\ strays = [c \in Controls |-> 0]
    /\ dialog = NoDialog
    /\ lastClicked = "none"
    /\ last = Ran("init", "", 0, 0, <<>>, State)
    /\ chain = <<>>
    /\ pushLog = <<>>
    /\ faults = 0

Init == Constructed /\ gesture = NoGesture

\* open_pdfs / dropEvent
OpenPdf(e) ==
    /\ dialog = NoDialog
    /\ Room(e, 1)
    /\ \E fs \in e.opens, io \in IOChoices(e) :
         LET s2 == process_pdf_files(State, fs, io)
         IN  /\ Bites(io, s2)
             /\ Commit(s2)
             /\ Inject(io)
             /\ last' = Ran("open", "", Len(fs), 0, <<>>, s2)
             /\ pushLog' = pushLog \o s2.pushed
    /\ chain' = <<>>
    /\ lastClicked' = "none"
    /\ UNCHANGED <<click_timers, strays, dialog, gesture>>

ImagesToPdf(e) ==
    /\ dialog = NoDialog
    /\ Room(e, 1)
    /\ \E io \in IOChoices(e) :
         LET s2 == images_to_pdf(State, ImagePages, io)
         IN  /\ Bites(io, s2)
             /\ Commit(s2)
             /\ Inject(io)
             /\ last' = Ran("images", "", 0, 0, <<>>, s2)
             /\ pushLog' = pushLog \o s2.pushed
    /\ chain' = <<>>
    /\ lastClicked' = "none"
    /\ UNCHANGED <<click_timers, strays, dialog, gesture>>

ClosePdf ==
    /\ dialog = NoDialog
    /\ LET s2 == close_pdf(State)
       IN  /\ Commit(s2)
           /\ last' = Ran("close", "", 0, 0, <<>>, s2)
    /\ chain' = <<>>
    /\ pushLog' = <<>>
    /\ lastClicked' = "none"
    /\ UNCHANGED <<click_timers, strays, dialog, gesture, faults>>

Undo(e) ==
    /\ dialog = NoDialog
    /\ \E io \in {i \in IOChoices(e) : i.copy /\ i.write} :
         LET s2 == undo(State, io.load)
             follows == chain # <<>> /\ s2.loaded
         IN  /\ Bites(io, s2)
             /\ Commit(s2)
             /\ Inject(io)
             /\ last' = [Ran("undo", "", 0, 0, <<>>, s2) EXCEPT
                            !.chained = follows,
                            !.expect = IF follows THEN chain[Len(chain)]
                                       ELSE NoExpect]
             /\ chain' = IF follows THEN SubSeq(chain, 1, Len(chain) - 1)
                         ELSE <<>>
             /\ pushLog' = IF undo_stack = <<>> THEN pushLog ELSE <<>>
    /\ lastClicked' = "none"
    /\ UNCHANGED <<click_timers, strays, dialog, gesture>>

\* prev_page / next_page: the buttons and the mouse wheel over the preview
Navigate ==
    /\ dialog = NoDialog
    /\ \E d \in {"prev", "next"} :
         LET s2 == IF d = "prev" THEN prev_page(State) ELSE next_page(State)
         IN  /\ Commit(s2)
             /\ last' = Ran(d, "", 0, 0, <<>>, s2)
    /\ chain' = <<>>
    /\ UNCHANGED <<click_timers, strays, dialog, lastClicked, pushLog, gesture, faults>>

\* on_thumbnail_click: the list holds one item per preview of the last
\* successful load
ThumbnailClick ==
    /\ dialog = NoDialog
    /\ \E row \in 0..(Len(page_images) - 1) :
         LET s2 == on_thumbnail_click(State, row)
         IN  /\ Commit(s2)
             /\ last' = Ran("thumb", "", row, 0, <<>>, s2)
    /\ chain' = <<>>
    /\ lastClicked' = "none"
    /\ UNCHANGED <<click_timers, strays, dialog, pushLog, gesture, faults>>

----------------------------------------------------------------------------
(* The click timers of the four debounced buttons *)

\* schedule_single_click: the sender's old timer is stopped and a new
\* single-shot timer is started in its place
schedule_single_click(timers, c) == [timers EXCEPT ![c] = TRUE]

\* the sender's old timer left running when the new one takes its place
replaced_timer_unstopped(timers, running, c) ==
    [running EXCEPT ![c] = IF timers[c] THEN @ + 1 ELSE @]

\* `if sender in self.click_timers: self.click_timers[sender].stop()`: the
\* timer the new one replaces is stopped, and adds nothing to the timers
\* that run without being held
replaced_timer(timers, running, c) == running

\* the timers of c that can time out: the one click_timers holds, if it is
\* active, and the ones it has let go
RunningTimers(c) ==
    (IF click_timers[c] THEN {"held"} ELSE {})
        \cup (IF strays[c] > 0 THEN {"stray"} ELSE {})

\* how many timers of c are armed
armed_timers(c) == strays[c] + IF click_timers[c] THEN 1 ELSE 0

\* a double click that leaves the sender's timer running
cancel_nothing(timers, c) == timers

\* eventFilter on MouseButtonDblClick: the sender's timer is stopped and
\* taken out of click_timers
cancel_single_click(timers, c) == [timers EXCEPT ![c] = FALSE]

\* a timer that is not single-shot keeps running after its timeout
timed_out_repeating(timers, c) == timers

\* a single-shot timer that has timed out is no longer active
timed_out(timers, c) == [timers EXCEPT ![c] = FALSE]

\* the button's clicked signal.  A click that finds the button's timer
\* running belongs to the gesture that started it; any other click starts a
\* new gesture.
Click(c, e) ==
    /\ dialog = NoDialog
    /\ Cardinality(Armed \cup {c}) <= e.armed
    /\ nextFile + 2 * Cardinality(Armed \cup {c}) <= FirstTemp + e.files
    /\ strays' = replaced_timer(click_timers, strays, c)
    /\ click_timers' = schedule_single_click(click_timers, c)
    /\ lastClicked' = c
    /\ gesture' = IF c # gesture.c THEN gesture
                  ELSE IF armed_timers(c) > 0
                       THEN [gesture EXCEPT !.pending = TRUE]
                  ELSE [NoGesture EXCEPT !.c = c, !.phase = "clicked"]
    /\ UNCHANGED <<files, nextFile, current_pdf_path, page_images, reader,
                   current_page_index, undo_stack, last_temp, dialog, last,
                   chain, pushLog, faults>>

\* the timer's timeout: execute_single_click(func).  The event loop also
\* runs, and delivers timeouts, while a modal prompt is up.
TimerFire(c, e) ==
    /\ \E t \in RunningTimers(c) :
         /\ click_timers' = IF t = "held" THEN timed_out(click_timers, c)
                            ELSE click_timers
         /\ strays' = IF t = "stray" THEN [strays EXCEPT ![c] = @ - 1]
                      ELSE strays
    /\ gesture' = IF c = gesture.c
                  THEN [gesture EXCEPT !.single = Min(@ + 1, 2)]
                  ELSE gesture
    /\ \E io \in IOChoices(e) :
         LET s2 == single_action(c, State, io)
         IN  /\ Bites(io, s2)
             /\ Commit(s2)
             /\ Inject(io)
             /\ last' = Ran("single", c, 1, 0, <<>>, s2)
             /\ chain' = ChainAfterEdit(State, s2)
             /\ pushLog' = pushLog \o s2.pushed
    /\ UNCHANGED <<dialog, lastClicked>>

\* the MouseButtonDblClick event the second press of a double click is
\* delivered as, on the button the first press clicked: eventFilter cancels
\* the timer and calls the batch handler, which returns at its guard or
\* shows its prompt.  The event filter swallows the event, so the button sees
\* no second press and emits no second clicked.
DblClick(c) ==
    /\ dialog = NoDialog
    /\ lastClicked = c
    /\ lastClicked' = "none"
    /\ click_timers' = cancel_single_click(click_timers, c)
    /\ strays' = strays
    /\ gesture' = IF c = gesture.c
                  THEN [gesture EXCEPT !.phase = "dbl",
                                       !.pending = click_timers[c],
                                       !.multi = Min(@ + 1, 2)]
                  ELSE gesture
    /\ dialog' = multi_open(c, State)
    /\ last' = Ran("dblclick", c, 0, 0, <<>>, State)
    /\ UNCHANGED <<files, nextFile, current_pdf_path, page_images, reader,
                   current_page_index, undo_stack, last_temp, chain, pushLog,
                   faults>>

\* the prompt of a batch handler returns (n, ok)
MultiAnswer(e) ==
    /\ dialog.kind \in Controls
    /\ dialog' = NoDialog
    /\ \E ok \in BOOLEAN, n \in dialog.lo..Min(dialog.hi, MaxBlank),
          io \in IOChoices(e) :
         LET s2 == multi_answer(dialog.kind, State, ok, n, io)
         IN  /\ ok \/ (n = dialog.lo /\ io = AllOk)
             /\ ok => Room(e, 1)
             /\ Bites(io, s2)
             /\ Commit(s2)
             /\ Inject(io)
             /\ last' = Ran("multi", dialog.kind, IF ok THEN n ELSE 0,
                            dialog.hi, <<>>, s2)
             /\ chain' = ChainAfterEdit(State, s2)
             /\ pushLog' = pushLog \o s2.pushed
    /\ UNCHANGED <<click_timers, strays, lastClicked, gesture>>

\* split_by_range up to its text prompt
SplitOpen ==
    /\ dialog = NoDialog
    /\ dialog' = IF reader.set
                 THEN Prompt("split", Len(reader.pages), Len(reader.pages))
                 ELSE NoDialog
    /\ last' = Ran("split_open", "", 0, 0, <<>>, State)
    /\ lastClicked' = "none"
    /\ UNCHANGED <<files, nextFile, current_pdf_path, page_images, reader,
                   current_page_index, undo_stack, last_temp, click_timers, strays,
                   chain, pushLog, gesture, faults>>

\* the text prompt returns (text, ok)
SplitAnswer(e) ==
    /\ dialog.kind = "split"
    /\ dialog' = NoDialog
    /\ \E ok \in BOOLEAN, text \in e.texts, io \in IOChoices(e) :
         LET s2 == split_by_range_answer(State, ok, text, dialog.hi, io)
         IN  /\ ok \/ (text = <<" ">> /\ io = AllOk)
             /\ ok => Room(e, 1)
             /\ Bites(io, s2)
             /\ Commit(s2)
             /\ Inject(io)
             /\ last' = Ran("split", "", dialog.hi, 0,
                            IF ok THEN text ELSE <<>>, s2)
             /\ chain' = ChainAfterEdit(State, s2)
             /\ pushLog' = pushLog \o s2.pushed
    /\ UNCHANGED <<click_timers, strays, lastClicked, gesture>>

Next ==
    \/ OpenPdf(FullEnv)
    \/ ImagesToPdf(FullEnv)
    \/ ClosePdf
    \/ Undo(FullEnv)
    \/ Navigate
    \/ ThumbnailClick
    \/ \E c \in Controls : Click(c, FullEnv)
    \/ \E c \in Controls : TimerFire(c, FullEnv)
    \/ \E c \in Controls : DblClick(c)
    \/ MultiAnswer(FullEnv)
    \/ SplitOpen
    \/ SplitAnswer(FullEnv)

Spec == Init /\ [][Next]_vars

----------------------------------------------------------------------------
(* The same handlers with I/O that may fail *)

NextFaults ==
    \/ OpenPdf(FaultEnv)
    \/ ImagesToPdf(FaultEnv)
    \/ ClosePdf
    \/ Undo(FaultEnv)
    \/ Navigate
    \/ \E c \in Controls : Click(c, FaultEnv)
    \/ \E c \in Controls : TimerFire(c, FaultEnv)
    \/ \E c \in Controls : DblClick(c)
    \/ MultiAnswer(FaultEnv)
    \/ SplitOpen
    \/ SplitAnswer(FaultEnv)

SpecFaults == Init /\ [][NextFaults]_vars

----------------------------------------------------------------------------
(* Long runs of single-page edits and undos: the undo stack fills up *)

\* the buttons clicked in these runs: the two whose edit keeps the length
\* of the document
HistoryControls == {"up", "down"}

NextHistory ==
    \/ OpenPdf(HistoryEnv)
    \/ ClosePdf
    \/ Undo(HistoryEnv)
    \/ \E c \in HistoryControls : Click(c, HistoryEnv)
    \/ \E c \in HistoryControls : TimerFire(c, HistoryEnv)

SpecHistory == Init /\ [][NextHistory]_vars

----------------------------------------------------------------------------
(* The click timers, with the gesture on one button watched *)

InitClick ==
    /\ Constructed
    /\ \E c \in Controls : gesture = [NoGesture EXCEPT !.c = c]

NextClick ==
    \/ OpenPdf(ClickEnv)
    \/ ClosePdf
    \/ Undo(ClickEnv)
    \/ \E c \in Controls : Click(c, ClickEnv)
    \/ \E c \in Controls : TimerFire(c, ClickEnv)
    \/ \E c \in Controls : DblClick(c)
    \/ MultiAnswer(ClickEnv)

SpecClick == InitClick /\ [][NextClick]_vars

\* the timeout of the timer of c, as the timers see it: the step TimerFire
\* takes on click_timers
TimerTimeout(c) ==
    /\ click_timers[c]
    /\ click_timers' = timed_out(click_timers, c)
    /\ UNCHANGED <<dialog, lastClicked>>

\* the event loop keeps running: a timer that is running times out.
\* (TimerFire waits for nothing but its timer, so it is enabled exactly when
\* TimerTimeout is.)
LiveClick ==
    /\ InitClick
    /\ [][NextClick]_vars
    /\ \A c \in Controls : WF_click_timers(TimerTimeout(c))

----------------------------------------------------------------------------
(* move_page as a function of the document, the cursor and its arguments *)

\* a document of n pages is open with the cursor anywhere
InitMove ==
    \E n \in 1..MaxPages, cur \in 0..(MaxPages - 1) :
        /\ cur < n
        /\ files = [Disk EXCEPT ![UserA] = PdfFile([i \in 1..n |-> i])]
        /\ nextFile = FirstTemp
        /\ current_pdf_path = UserA
        /\ page_images = [i \in 1..n |-> i]
        /\ reader = Reader([i \in 1..n |-> i])
        /\ current_page_index = cur
        /\ undo_stack = <<>>
        /\ last_temp = NoPath
        /\ click_timers = [c \in Controls |-> FALSE]
        /\ strays = [c \in Controls |-> 0]
        /\ dialog = NoDialog
        /\ lastClicked = "none"
        /\ last = [Ran("init", "", 0, 0, <<>>, State) EXCEPT
                     !.expect = [pages |-> [i \in 1..n |-> i], index |-> cur]]
        /\ chain = <<>>
        /\ pushLog = <<>>
        /\ gesture = NoGesture
        /\ faults = 0

\* move_page(from_index, to_index) on the document as opened
MovePage ==
    /\ last.op = "init"
    /\ \E from_index \in 0..(Len(reader.pages) - 1),
          to_index \in 0..(Len(reader.pages) - 1) :
         LET s2 == move_page(State, from_index, to_index, AllOk)
         IN  /\ Commit(s2)
             /\ last' = [Ran("move_page", "", from_index, to_index, <<>>, s2)
                           EXCEPT !.expect = last.expect]
             /\ pushLog' = pushLog \o s2.pushed
    /\ UNCHANGED <<click_timers, strays, dialog, lastClicked, chain, gesture, faults>>

NextMove == MovePage

SpecMove == InitMove /\ [][NextMove]_vars

----------------------------------------------------------------------------
(* parse_page_ranges as a function of the expression and total_pages.  The *)
(* expressions are written out from parts whose meaning is known: numbers  *)
(* and ranges within 1..total_pages, and parts that are malformed,         *)
(* reversed or out of range.                                               *)

DigitChars == <<"0", "1", "2", "3", "4", "5", "6", "7", "8", "9">>

\* the decimal numeral of n
RECURSIVE Dec(_)
Dec(n) ==
    IF n < 10 THEN <<DigitChars[n + 1]>>
    ELSE Dec(n \div 10) \o <<DigitChars[(n % 10) + 1]>>

\* a part: its text, the pages it stands for, whether it is to be rejected
Single(n) == [text |-> Dec(n), pages |-> {n}, bad |-> FALSE]
Range(a, b) ==
    [text |-> Dec(a) \o <<"-">> \o Dec(b), pages |-> a..b, bad |-> FALSE]
Bad(text) == [text |-> text, pages |-> {}, bad |-> TRUE]

GoodParts(total) ==
    {Single(n) : n \in 1..total}
        \cup {Range(p[1], p[2]) :
                 p \in {q \in (1..total) \X (1..total) : q[1] <= q[2]}}

BadParts(total) ==
    \* malformed
    {Bad(<<>>), Bad(<<"-">>), Bad(Dec(1) \o <<"-">>), Bad(<<"-">> \o Dec(1)),
     Bad(Dec(1) \o <<"-">> \o Dec(1) \o <<"-">> \o Dec(1))}
    \* reversed ranges
        \cup {Bad(Dec(p[1]) \o <<"-">> \o Dec(p[2])) :
                 p \in {q \in (1..total) \X (1..total) : q[1] > q[2]}}
    \* out of 1..total
        \cup {Bad(Dec(0)), Bad(Dec(total + 1)),
              Bad(Dec(0) \o <<"-">> \o Dec(1)),
              Bad(Dec(1) \o <<"-">> \o Dec(total + 1))}

\* the expressions of the prompt's hint and of the documented error cases
ParseExamples ==
    {[total |-> 10, parts |-> <<Range(1, 3), Single(5), Range(7, 9)>>],
     [total |-> 10, parts |-> <<Bad(Dec(5) \o <<"-">> \o Dec(2))>>],
     [total |-> 10, parts |-> <<Bad(Dec(0))>>],
     [total |-> 10, parts |-> <<Bad(Dec(11))>>]}

Expressions(total) ==
    IF total <= MaxTotal
    THEN UNION {[1..k -> GoodParts(total) \cup BadParts(total)] :
                   k \in 1..MaxTokens}
    ELSE {e.parts : e \in {x \in ParseExamples : x.total = total}}

\* spaces around every part, or none
Pads == {<<>>, <<" ">>}

\* the parts written out with commas between them
RECURSIVE Render(_, _)
Render(parts, pad) ==
    LET one == pad \o Head(parts).text \o pad
    IN  IF Len(parts) = 1 THEN one
        ELSE one \o <<",">> \o Render(Tail(parts), pad)

NoParse == [ok |-> TRUE, pages |-> <<>>, token |-> <<>>]

\* total_pages is given; nothing is open and nothing else runs
InitParse ==
    /\ files = Disk
    /\ nextFile = FirstTemp
    /\ current_pdf_path = NoPath
    /\ page_images = <<>>
    /\ reader = NoReader
    /\ current_page_index = 0
    /\ undo_stack = <<>>
    /\ last_temp = NoPath
    /\ click_timers = [c \in Controls |-> FALSE]
    /\ strays = [c \in Controls |-> 0]
    /\ dialog = NoDialog
    /\ lastClicked = "none"
    /\ \E total \in (1..MaxTotal) \cup {e.total : e \in ParseExamples} :
         last = [op |-> "input", n |-> total, text |-> <<>>, parts |-> <<>>,
                 parsed |-> NoParse]
    /\ chain = <<>>
    /\ pushLog = <<>>
    /\ gesture = NoGesture
    /\ faults = 0

\* parse_page_ranges(range_str, total_pages) on one expression
ParseRanges ==
    /\ last.op = "input"
    /\ \E parts \in Expressions(last.n), pad \in Pads :
         LET range_str == Render(parts, pad)
         IN  last' = [op |-> "parse", n |-> last.n, text |-> range_str,
                      parts |-> parts,
                      parsed |-> parse_page_ranges(range_str, last.n)]
    /\ UNCHANGED <<files, nextFile, current_pdf_path, page_images, reader,
                   current_page_index, undo_stack, last_temp, click_timers, strays,
                   dialog, lastClicked, chain, pushLog, gesture, faults>>

NextParse == ParseRanges

SpecParse == InitParse /\ [][NextParse]_vars

----------------------------------------------------------------------------
(* The batch moves, the inserts and the split as functions of the document *)
(* and the cursor: each handler runs from its prompt to its end with       *)
(* nothing in between, on a document whose previews are those of its pages *)

\* the expressions typed into the split prompt
EditTexts ==
    {Render(<<Single(2)>>, <<>>),
     Render(<<Range(1, 2)>>, <<>>),
     Render(<<Range(1, 3)>>, <<>>),
     Render(<<Single(3), Single(1)>>, <<>>),
     Render(<<Range(2, 3), Single(2)>>, <<" ">>),
     Render(<<Range(1, 4)>>, <<>>),
     Render(<<Bad(Dec(2) \o <<"-">> \o Dec(1))>>, <<>>)}

EditEnv ==
    [opens |-> {}, ios |-> {AllOk}, texts |-> EditTexts,
     files |-> MaxEditFiles, faults |-> 0, armed |-> 0]

\* n times the single action of button c
RECURSIVE repeat(_, _, _)
repeat(c, s, n) ==
    IF n = 0 THEN s ELSE repeat(c, single_action(c, s, AllOk), n - 1)

\* move_current_up_multi / move_current_down_multi with the answer (n, ok)
\* to its prompt.  last'.expect: what n single moves make of the same
\* document.
BatchMove ==
    /\ dialog = NoDialog
    /\ Room(EditEnv, 1)
    /\ \E c \in {"up", "down"} :
         LET prompt == multi_open(c, State)
         IN  /\ prompt # NoDialog
             /\ \E n \in prompt.lo..prompt.hi :
                  LET s2 == multi_answer(c, State, TRUE, n, AllOk)
                      sN == repeat(c, State, n)
                  IN  /\ Commit(s2)
                      /\ last' = [Ran("batch_move", c, n, 0, <<>>, s2) EXCEPT
                                    !.expect =
                                        [pages |-> sN.reader.pages,
                                         index |-> sN.current_page_index]]
                      /\ pushLog' = pushLog \o s2.pushed
    /\ UNCHANGED <<click_timers, strays, dialog, lastClicked, chain, gesture, faults>>

\* add_blank_after_current (last'.m = 0), and add_blank_pages_multi with the
\* answer (n, ok) to its prompt (last'.m = 1).  last'.expect: the pages and
\* the cursor before.
InsertBlank ==
    /\ dialog = NoDialog
    /\ Room(EditEnv, 1)
    /\ \E batch \in BOOLEAN, n \in 1..MaxBlank :
         LET s2 == IF batch
                   THEN multi_answer("blank", State, TRUE, n, AllOk)
                   ELSE add_blank_after_current(State, AllOk)
         IN  /\ batch \/ n = 1
             /\ batch => multi_open("blank", State) # NoDialog
             /\ Commit(s2)
             /\ last' = [Ran("insert", "blank", n, IF batch THEN 1 ELSE 0,
                             <<>>, s2) EXCEPT
                           !.expect = [pages |-> reader.pages,
                                       index |-> current_page_index]]
             /\ pushLog' = pushLog \o s2.pushed
    /\ UNCHANGED <<click_timers, strays, dialog, lastClicked, chain, gesture, faults>>

NextEdit ==
    \/ BatchMove
    \/ InsertBlank
    \/ SplitOpen
    \/ SplitAnswer(EditEnv)

SpecEdit == InitMove /\ [][NextEdit]_vars

----------------------------------------------------------------------------
(* Long runs of single-page edits whose snapshot copy may fail *)

\* one document, shutil.copy that may raise
EvictEnv ==
    [opens |-> {<<UserA>>},
     ios |-> {AllOk, [AllOk EXCEPT !.copy = FALSE]},
     texts |-> {}, files |-> MaxHistFiles, faults |-> MaxFaults, armed |-> 1]

NextEvict ==
    \/ OpenPdf(EvictEnv)
    \/ Undo(EvictEnv)
    \/ \E c \in HistoryControls : Click(c, EvictEnv)
    \/ \E c \in HistoryControls : TimerFire(c, EvictEnv)

SpecEvict == Init /\ [][NextEvict]_vars

----------------------------------------------------------------------------
(* Properties *)

DocumentUnchanged ==
    UNCHANGED <<reader, page_images, current_pdf_path, current_page_index>>

\* C1: after a successful structural edit of an open document, an undo that
\* follows it at once leaves the page sequence and the cursor as they were
\* just before the edit; after k <= MAX_UNDO successful edits in a row, the
\* j-th of the undos that follow leaves them as they were before the j-th
\* last edit.  (last.chained: this undo restored its snapshot and answers an
\* edit of such a run; last.expect: the pages and cursor before that edit.)
UndoRoundTrip ==
    (last.op = "undo" /\ last.chained) =>
        /\ reader.pages = last.expect.pages
        /\ current_page_index = last.expect.index

\* C2: the undo stack never holds more than MAX_UNDO entries, and once more
\* than MAX_UNDO snapshots have been pushed since the last pop or clear it
\* holds the MAX_UNDO most recently pushed ones, oldest first.
UndoStackBounded ==
    /\ Len(undo_stack) <= MAX_UNDO
    /\ Len(pushLog) > MAX_UNDO => undo_stack = LastN(pushLog, MAX_UNDO)

UndoStackOverflowed ==
    /\ Len(pushLog) > MAX_UNDO
    /\ Len(undo_stack) = MAX_UNDO
    /\ last.op = "single"
    /\ last.pushed = 1

\* the sequence without its k-th element
Drop(seq, k) == SubSeq(seq, 1, k - 1) \o SubSeq(seq, k + 1, Len(seq))

\* C3: move_page(from, to) with from # to puts the page at index from at
\* index to and keeps the order of the other pages, and the cursor becomes
\* to if it was from, one less if from < cursor <= to, one more if
\* to <= cursor < from, and stays otherwise, so that it designates the page
\* it designated; with from = to nothing changes and no snapshot is pushed.
\* (last.expect: the pages and cursor move_page was called on; last.n,
\* last.m: from and to.)
MoveRelocates ==
    last.op = "move_page" =>
        LET old == last.expect.pages
            cur == last.expect.index
            from == last.n
            to == last.m
        IN  IF from = to
            THEN /\ reader.pages = old
                 /\ page_images = old
                 /\ current_page_index = cur
                 /\ current_pdf_path = UserA
                 /\ undo_stack = <<>>
                 /\ nextFile = FirstTemp
            ELSE /\ Len(reader.pages) = Len(old)
                 /\ reader.pages[to + 1] = old[from + 1]
                 /\ Drop(reader.pages, to + 1) = Drop(old, from + 1)
                 /\ page_images = reader.pages
                 /\ current_page_index =
                        IF cur = from THEN to
                        ELSE IF from < cur /\ cur <= to THEN cur - 1
                        ELSE IF to <= cur /\ cur < from THEN cur + 1
                        ELSE cur
                 /\ reader.pages[current_page_index + 1] = old[cur + 1]
                 /\ Len(undo_stack) = 1

\* [A,B,C,D] with the cursor on C, move(2,0): [C,A,B,D] with the cursor at 0
MovedThirdToFront ==
    /\ last.op = "move_page"
    /\ last.expect = [pages |-> <<1, 2, 3, 4>>, index |-> 2]
    /\ last.n = 2
    /\ last.m = 0
    /\ reader.pages = <<3, 1, 2, 4>>
    /\ current_page_index = 0

\* C4: a delete (single or batch) of a document that has pages leaves a
\* document that has at least one page, and a delete that would remove every
\* page is refused: the document and the undo stack stay as they are.
DeleteLeavesAPage ==
    [][(/\ last'.op \in {"single", "multi"}
        /\ last'.c = "del"
        /\ Len(reader.pages) >= 1)
       => /\ Len(reader'.pages) >= 1
          /\ without(reader.pages, current_page_index, last'.n) = <<>>
                => DocumentUnchanged /\ UNCHANGED undo_stack]_vars

\* C5: whenever a document is open the cursor is an index of one of its
\* pages.
CursorInRange ==
    current_pdf_path # NoPath =>
        /\ 0 <= current_page_index
        /\ current_page_index <= Len(page_images) - 1

\* C6: in one gesture on a debounced button (its click, with or without the
\* double-click event that follows it, before or after the timer has timed
\* out) at most one of the single and the batch action runs.
OneActionPerGesture == gesture.single + gesture.multi <= 1

\* C7: when the double-click event arrives while the button's timer is
\* running, the timer is cancelled, the single action does not run and the
\* batch action runs once.
DoubleClickCancelsSingle ==
    (gesture.phase = "dbl" /\ gesture.pending) =>
        /\ ~click_timers[gesture.c]
        /\ gesture.single = 0
        /\ gesture.multi = 1

DoubleClickedWhilePending ==
    /\ gesture.phase = "dbl"
    /\ gesture.pending
    /\ gesture.multi = 1
    /\ last.op = "dblclick"
    /\ last.c = gesture.c

\* C8: a click on a debounced button that no double click follows leads to
\* the timer timing out: the single action has then run once, no timer is
\* running for the button, and the single action does not run a second time
\* in that gesture.
SingleClickFires ==
    /\ [](gesture.phase = "clicked" =>
             /\ gesture.single <= 1
             /\ click_timers[gesture.c] => gesture.single = 0)
    /\ (gesture.phase = "clicked" /\ click_timers[gesture.c])
           ~> (~click_timers[gesture.c]
                  /\ (gesture.phase = "dbl" \/ gesture.single = 1))

SingleClickFired ==
    /\ gesture.phase = "clicked"
    /\ gesture.single = 1
    /\ ~click_timers[gesture.c]
    /\ last.op = "single"
    /\ last.c = gesture.c

\* C9: a structural edit whose writer.write fails has no effect: the page
\* sequence, the previews, the current path, the cursor and the undo stack
\* are as they were before the edit.
WriteFailureIsAtomic ==
    [][(last'.op \in {"single", "multi", "split"} /\ last'.failed = "write")
       => DocumentUnchanged /\ UNCHANGED undo_stack]_vars

\* C10: a handler whose load_pdf fails (from open, from the reload of an
\* edit, from the restore of an undo) leaves self.reader, self.page_images,
\* current_pdf_path and the cursor as they were.
LoadFailureChangesNothing ==
    [][(last'.failed = "load" /\ ~last'.exc) => DocumentUnchanged]_vars

\* the fields and files a handler that does nothing leaves alone
NothingDone ==
    UNCHANGED <<reader, page_images, current_pdf_path, current_page_index,
                undo_stack, files, nextFile>>

\* C11: an edit whose precondition fails does nothing: the single move-up at
\* cursor 0, the single move-down at the last page, the single delete on a
\* one-page document, any edit with no document open, and a split whose
\* expression is blank or is rejected by the parser leave the page sequence,
\* the previews, the path, the cursor, the undo stack and the files as they
\* are.  (last'.text, last'.n: the expression typed and the page count the
\* prompt was opened with.)
RejectedEditIsNoOp ==
    [][(\/ /\ last'.op = "single"
           /\ \/ last'.c = "up" /\ current_page_index = 0
              \/ /\ last'.c = "down"
                 /\ current_pdf_path # NoPath
                 /\ current_page_index = Len(page_images) - 1
              \/ last'.c = "del" /\ Len(page_images) = 1
        \/ /\ last'.op \in {"single", "multi", "split"}
           /\ current_pdf_path = NoPath
        \/ /\ last'.op = "split"
           /\ \/ IsBlank(last'.text)
              \/ ~parse_page_ranges(last'.text, last'.n).ok)
       => NothingDone]_vars

\* C12: for an expression made only of well-formed parts (a number N with
\* 1 <= N <= total_pages or a range A-B with 1 <= A <= B <= total_pages),
\* parse_page_ranges returns a strictly ascending list of integers in
\* 1..total_pages whose set is the union of the pages the parts stand for.
ParseGivesAscendingUnion ==
    (/\ last.op = "parse"
     /\ \A i \in 1..Len(last.parts) : ~last.parts[i].bad)
        => LET pages == last.parsed.pages
           IN  /\ last.parsed.ok
               /\ \A i \in 1..Len(pages) : pages[i] \in 1..last.n
               /\ \A i \in 1..(Len(pages) - 1) : pages[i] < pages[i + 1]
               /\ {pages[i] : i \in 1..Len(pages)} =
                      UNION {last.parts[i].pages : i \in 1..Len(last.parts)}

\* "1-3,5,7-9" over 10 pages gives [1,2,3,5,7,8,9]
ParsedTheHint ==
    /\ last.op = "parse"
    /\ last.n = 10
    /\ last.text = <<"1", "-", "3", ",", "5", ",", "7", "-", "9">>
    /\ last.parsed.ok
    /\ last.parsed.pages = <<1, 2, 3, 5, 7, 8, 9>>

\* C13: if a part of an expression that is not blank is malformed, a
\* reversed range or out of 1..total_pages, parse_page_ranges fails, names a
\* part that is at fault and returns no pages, wherever the part stands; an
\* expression that is blank gives the empty list and no error.
ParseRejectsBadPart ==
    last.op = "parse" =>
        IF \A i \in 1..Len(last.text) : last.text[i] = " "
        THEN last.parsed.ok /\ last.parsed.pages = <<>>
        ELSE (\E i \in 1..Len(last.parts) : last.parts[i].bad)
                => /\ ~last.parsed.ok
                   /\ last.parsed.pages = <<>>
                   /\ \E i \in 1..Len(last.parts) :
                          /\ last.parts[i].bad
                          /\ last.parsed.token = last.parts[i].text

\* "1,0,2" over 2 pages: the part in the middle is rejected
RejectedTheMiddlePart ==
    /\ last.op = "parse"
    /\ last.n = 2
    /\ last.text = <<"1", ",", "0", ",", "2">>
    /\ ~last.parsed.ok
    /\ last.parsed.pages = <<>>
    /\ last.parsed.token = <<"0">>

\* C14: undo with an empty undo stack (at the start, after close_pdf, after
\* earlier undos have emptied it) changes nothing and reports nothing: the
\* page sequence, the previews, the path, the cursor, the empty stack and
\* the files stay as they are, and no error is shown or raised.
UndoOnEmptyIsNoOp ==
    [][(last'.op = "undo" /\ undo_stack = <<>>)
       => /\ NothingDone
          /\ UNCHANGED last_temp
          /\ ~last'.exc
          /\ last'.failed = "none"]_vars

\* undo was the last handler and loaded nothing, on a document that earlier
\* undos have brought back
UndoneWithNothingLeft ==
    /\ last.op = "undo"
    /\ ~last.loaded
    /\ last.failed = "none"
    /\ undo_stack = <<>>
    /\ last_temp # NoPath
    /\ current_pdf_path # NoPath

\* C15: close_pdf leaves the undo stack empty, and the file of every
\* snapshot that was in the stack when the document was closed is gone.
CloseReleasesSnapshots ==
    [][last'.op = "close"
       => /\ undo_stack' = <<>>
          /\ \A i \in 1..Len(undo_stack) :
                 ~files'[undo_stack[i][1]].exists]_vars

\* C16: opening several files at once makes the current document the pages
\* of the files in the order given; with a document open before, exactly one
\* snapshot is pushed and it holds that document and its cursor; with no
\* document open before, the undo stack stays as it is.  (last'.n: the
\* number of files picked.)
MultiOpenIsOneUndoStep ==
    [][(last'.op = "open" /\ last'.n >= 2 /\ last'.loaded)
       => /\ \E fs \in {f \in OpenChoices : Len(f) = last'.n} :
                 reader'.pages = Concat(State, fs)
          /\ IF current_pdf_path # NoPath
             THEN /\ last'.pushed = 1
                  /\ LET top == undo_stack'[Len(undo_stack')]
                     IN  /\ files'[top[1]].pages = reader.pages
                         /\ top[2] = current_page_index
             ELSE undo_stack' = undo_stack]_vars

\* C17: a batch move by n (1 <= n <= c up, 1 <= n <= len-1-c down) leaves
\* the page sequence and the cursor that n single moves of the current page
\* in that direction leave, and the page stays within the document.
\* (last.expect: the outcome of the n single moves.)
BatchMoveIsRepeatedMove ==
    last.op = "batch_move" =>
        /\ reader.pages = last.expect.pages
        /\ current_page_index = last.expect.index
        /\ page_images = reader.pages
        /\ 0 <= current_page_index
        /\ current_page_index <= Len(reader.pages) - 1

\* [1,2,3,4] with the cursor on 4, up by 3: [4,1,2,3] with the cursor at 0
BatchMovedLastToFront ==
    /\ last.op = "batch_move"
    /\ last.c = "up"
    /\ last.n = 3
    /\ reader.pages = <<4, 1, 2, 3>>
    /\ current_page_index = 0

\* C19: insert-blank with the cursor at c and count n >= 1 (n = 1 for the
\* single form) gives old[0..c], n blank pages, old[c+1..]: the blanks are
\* at indices c+1 .. c+n, the other pages keep their order, and the cursor
\* is c + n, the index of the last blank inserted.  (last.expect: the pages
\* and the cursor before; last.n: the count.)
InsertBlankAfterCursor ==
    last.op = "insert" =>
        LET old == last.expect.pages
            c == last.expect.index
            n == last.n
        IN  /\ reader.pages =
                   SubSeq(old, 1, c + 1) \o [i \in 1..n |-> Blank]
                       \o SubSeq(old, c + 2, Len(old))
            /\ page_images = reader.pages
            /\ current_page_index = c + n

\* a one-page document: the blank is appended and the cursor is on it
InsertedIntoOnePage ==
    /\ last.op = "insert"
    /\ last.n = 1
    /\ last.m = 0
    /\ last.expect = [pages |-> <<1>>, index |-> 0]
    /\ reader.pages = <<1, Blank>>
    /\ current_page_index = 1

\* C20: split_by_range replaces the document by the selected pages in the
\* order of the list of selected page numbers: page k of the result is the
\* original page selected_pages[k]; selecting 1..N of an N-page document
\* leaves the page order as it was.  (last'.text, last'.n: the expression
\* typed and the page count.)
SplitKeepsSelectedPages ==
    [][(dialog.kind = "split" /\ last'.op = "split" /\ last'.loaded)
       => LET selected_pages == parse_page_ranges(last'.text, last'.n).pages
          IN  /\ Len(reader'.pages) = Len(selected_pages)
              /\ \A k \in 1..Len(selected_pages) :
                     reader'.pages[k] = reader.pages[selected_pages[k]]
              /\ page_images' = reader'.pages
              /\ selected_pages = [k \in 1..Len(reader.pages) |-> k]
                     => reader'.pages = reader.pages]_vars

\* pages 2-3 and 2 of [1,2,3,4] selected: [2,3]
SplitSelectedTwoPages ==
    /\ last.op = "split"
    /\ last.loaded
    /\ last.n = 4
    /\ last.text = Render(<<Range(2, 3), Single(2)>>, <<" ">>)
    /\ reader.pages = <<2, 3>>
    /\ Len(undo_stack) = 1

\* C20 as stated, for an expression that is a list of distinct page
\* numbers: page k of the result is the original page with the k-th number
\* typed.
SplitKeepsOrderTyped ==
    [][(dialog.kind = "split" /\ last'.op = "split" /\ last'.loaded)
       => \A a \in 1..last'.n, b \in 1..last'.n :
              (a # b /\ last'.text = Render(<<Single(a), Single(b)>>, <<>>))
                  => reader'.pages = <<reader.pages[a], reader.pages[b]>>]_vars

\* C18: a delete (single, or batch with count last'.n) that succeeds on a
\* document with the cursor at c leaves the cursor at min(c, newLen - 1)
\* and removes exactly the pages at indices c .. c+count-1, the others
\* keeping their order.  Stated for a document whose previews are those of
\* its pages.
DeleteClampsCursor ==
    [][(/\ last'.c = "del"
        /\ last'.loaded
        /\ \/ last'.op = "single" /\ click_timers["del"]
                                  /\ ~click_timers'["del"]
           \/ last'.op = "multi" /\ dialog.kind = "del"
        /\ current_pdf_path # NoPath
        /\ reader.pages = page_images
        /\ 0 <= current_page_index
        /\ current_page_index < Len(page_images))
       => LET c == current_page_index
              count == IF last'.op = "single" THEN 1 ELSE last'.n
          IN  /\ reader'.pages =
                     SubSeq(reader.pages, 1, c)
                         \o SubSeq(reader.pages, c + count + 1,
                                   Len(reader.pages))
              /\ current_page_index' = Min(c, Len(reader'.pages) - 1)]_vars

\* C21: structural edits do not interleave: from the moment a batch edit has
\* computed its bounds and shown its prompt until it has acted on the answer,
\* no other handler changes the page sequence, the previews, the path, the
\* cursor or the undo stack, so the bounds of the prompt still hold.
EditsDoNotInterleave ==
    [][(dialog.kind \in Controls /\ dialog' = dialog)
       => UNCHANGED <<reader, page_images, current_pdf_path,
                      current_page_index, undo_stack>>]_vars

\* C24: live storage is never released: in every reachable state the file
\* of the current document and the file of every entry of the undo stack
\* exist, also after an undo whose load failed.
LiveStorageKept ==
    /\ current_pdf_path # NoPath => files[current_pdf_path].exists
    /\ \A i \in 1..Len(undo_stack) : files[undo_stack[i][1]].exists

\* C25: a pending click outlives close_pdf harmlessly: with no document open,
\* the step of a click timer that fires, and the step of a double click, on
\* any of the four buttons, pushes no snapshot, creates no file, opens no
\* prompt and leaves the editor closed: no path, cursor 0, empty undo stack.
ClickAfterCloseIsHarmless ==
    [][(/\ current_pdf_path = NoPath
        /\ \/ \E c \in Controls :
                click_timers[c] /\ ~click_timers'[c]
           \/ last'.op = "dblclick" /\ lastClicked # "none"
                                    /\ lastClicked' = "none")
       => /\ NothingDone
          /\ last'.pushed = 0
          /\ dialog' = NoDialog
          /\ current_pdf_path' = NoPath
          /\ current_page_index' = 0
          /\ undo_stack' = <<>>]_vars

\* a document was edited and closed, and a click timer has fired since
ClickFiredAfterClose ==
    /\ last.op = "single"
    /\ last.c = "blank"
    /\ lastClicked = "none"
    /\ nextFile > FirstTemp
    /\ current_pdf_path = NoPath
    /\ ~reader.set

\* the files that exist before the step and not after it
Released == {p \in Paths : files[p].exists /\ ~files'[p].exists}

\* C23: eviction order and release: a push that finds MAX_UNDO entries
\* appends the new entry, removes exactly the oldest one and releases its
\* file; a push that finds fewer appends and releases nothing; a push whose
\* copy fails leaves the undo stack as it was and releases nothing; after a
\* push the file of every entry of the undo stack exists.
EvictionInOrder ==
    [][(\E c \in Controls : click_timers[c] /\ ~click_timers'[c])
       => /\ last'.failed = "copy"
               => undo_stack' = undo_stack /\ Released = {}
          /\ (last'.pushed = 1 /\ Len(undo_stack) < MAX_UNDO)
               => /\ undo_stack' =
                         Append(undo_stack, pushLog'[Len(pushLog')])
                  /\ Released = {}
          /\ (last'.pushed = 1 /\ Len(undo_stack) = MAX_UNDO)
               => /\ undo_stack' =
                         Append(Tail(undo_stack), pushLog'[Len(pushLog')])
                  /\ Released = {Head(undo_stack)[1]}
          /\ last'.pushed = 1
               => \A i \in 1..Len(undo_stack') :
                      files'[undo_stack'[i][1]].exists]_vars

\* a copy has failed, and a later push has evicted the oldest snapshot
EvictedAfterFailedCopy ==
    /\ faults > 0
    /\ last.op = "single"
    /\ last.pushed = 1
    /\ Len(undo_stack) = MAX_UNDO
    /\ Len(pushLog) > MAX_UNDO
    /\ ~files[pushLog[Len(pushLog) - MAX_UNDO][1]].exists
    /\ \A i \in 1..Len(undo_stack) : files[undo_stack[i][1]].exists

\* C22: a click on a button whose timer is pending replaces that timer: at
\* every moment at most one timer is armed for each button, and in a burst
\* of clicks on the watched button, each arriving while the timer of the one
\* before is pending, the single action runs at most once, and once it has
\* run no timer of the button is left armed.
OneTimerPerControl ==
    /\ \A c \in Controls : armed_timers(c) <= 1
    /\ gesture.phase = "clicked" =>
         /\ gesture.single <= 1
         /\ gesture.single = 1 => armed_timers(gesture.c) = 0

\* a click has found the timer of the click before it pending, and the
\* single action has run once since
BurstFiredOnce ==
    /\ gesture.phase = "clicked"
    /\ gesture.pending
    /\ gesture.single = 1
    /\ armed_timers(gesture.c) = 0
    /\ last.op = "single"
    /\ last.c = gesture.c
    /\ last.pushed = 1

====
